---- MODULE Spec2Model ----
(***************************************************************************)
(* Model of the agent-call layer of the chat front-end:                    *)
(*   src/src/hooks/useAgent.ts  (useAgent.callAgent, callAgentAPI,         *)
(*                               detectError, extractAgentMessage,         *)
(*                               the global error callback slot)           *)
(*   src/src/utils/aiAgent.ts   (callAIAgent)                              *)
(*   src/src/pages/Home.tsx     (handleSendMessage and the input controls) *)
(* JavaScript runs each handler to completion, so every stretch of code     *)
(* between two awaits is one atomic action.                                *)
(***************************************************************************)
EXTENDS Integers, Sequences, FiniteSets, TLC

(***************************************************************************)
(* JavaScript values.  `undefined' is the sentinel Absent; a JSON value is *)
(* a record of one fixed shape so that any two values can be compared.     *)
(***************************************************************************)
Absent == "<undefined>"

\* JavaScript truthiness of a string-or-undefined value
Truthy(x) == x /= Absent /\ x /= ""

\* a || b on string-or-undefined values
OrElse(a, b) == IF Truthy(a) THEN a ELSE b

\* the value of a `result' member: undefined, a string, or an object that
\* may carry a `message' member
NoResult == [k |-> "undef", s |-> Absent, message |-> Absent]
ResStr(s) == [k |-> "str", s |-> s, message |-> Absent]
ResObj(m) == [k |-> "obj", s |-> Absent, message |-> m]

\* a JSON value: undefined, null, a string, or an object with the members
\* the code reads (success, status, result, message, error, raw_response)
JBase ==
  [k |-> "undef", s |-> Absent, success |-> Absent, status |-> Absent,
   result |-> NoResult, message |-> Absent, error |-> Absent,
   raw_response |-> Absent]
JUndef == JBase
JNull == [JBase EXCEPT !.k = "null"]
JStr(s) == [JBase EXCEPT !.k = "str", !.s = s]
JObj(su, st, r, m, e) ==
  [JBase EXCEPT !.k = "obj", !.success = su, !.status = st, !.result = r,
                !.message = m, !.error = e]

\* typeof v === 'object' && v is truthy
IsObject(v) == v.k = "obj"

\* what a call evaluates to when it throws an Error with message m instead
\* of returning a value
JThrow(m) == [JBase EXCEPT !.k = "throw", !.s = m]
Throws(v) == v.k = "throw"

(***************************************************************************)
(* JSON.stringify.  Members are written in the order success, status,      *)
(* result, message, error, raw_response.                                   *)
(***************************************************************************)
Quote(s) == "\"" \o s \o "\""

Opt(cond, x) == IF cond THEN <<x>> ELSE <<>>

Indent(depth) == IF depth = 0 THEN "" ELSE IF depth = 1 THEN "  " ELSE "    "

RECURSIVE JoinMembers(_, _, _)
JoinMembers(ms, sep, colon) ==
  IF ms = <<>> THEN ""
  ELSE ms[1][1] \o colon \o ms[1][2] \o
       (IF Len(ms) = 1 THEN "" ELSE sep \o JoinMembers(Tail(ms), sep, colon))

\* style "compact" is JSON.stringify(v); "pretty" is JSON.stringify(v, null, 2);
\* "spaced" is the one-line layout with a blank after ':' and ','
ObjText(ms, style, depth) ==
  IF ms = <<>> THEN "{}"
  ELSE IF style = "compact" THEN "{" \o JoinMembers(ms, ",", ":") \o "}"
  ELSE IF style = "spaced" THEN "{" \o JoinMembers(ms, ", ", ": ") \o "}"
  ELSE "{\n" \o Indent(depth + 1)
       \o JoinMembers(ms, ",\n" \o Indent(depth + 1), ": ")
       \o "\n" \o Indent(depth) \o "}"

ResultText(r, style, depth) ==
  IF r.k = "str" THEN Quote(r.s)
  ELSE ObjText(Opt(r.message /= Absent, <<Quote("message"), Quote(r.message)>>),
               style, depth)

Stringify(v, style) ==
  IF v.k = "null" THEN "null"
  ELSE IF v.k = "str" THEN Quote(v.s)
  ELSE ObjText(
         Opt(v.success /= Absent, <<Quote("success"), v.success>>)
         \o Opt(v.status /= Absent, <<Quote("status"), Quote(v.status)>>)
         \o Opt(v.result.k /= "undef",
                <<Quote("result"), ResultText(v.result, style, 1)>>)
         \o Opt(v.message /= Absent, <<Quote("message"), Quote(v.message)>>)
         \o Opt(v.error /= Absent, <<Quote("error"), Quote(v.error)>>)
         \o Opt(v.raw_response /= Absent,
                <<Quote("raw_response"), Quote(v.raw_response)>>),
         style, 0)

\* JSON.stringify(r, null, 2) of a `result' member taken on its own
StringifyResult(r) == ResultText(r, "pretty", 0)

(***************************************************************************)
(* The response bodies the model draws from.                               *)
(***************************************************************************)
\* an object of the body universe has at most MaxMembers members
MaxMembers == 2

SuccessVals == {Absent, "false", "true"}
StatusVals == {Absent, "success"}
ResultVals == {NoResult, ResStr("done"), ResObj(Absent), ResObj("hello")}
MessageVals == {Absent, "", "boom"}
ErrorVals == {Absent, "", "rate limited"}

Count(b) == IF b THEN 1 ELSE 0

NumMembers(v) ==
  Count(v.success /= Absent) + Count(v.status /= Absent)
  + Count(v.result.k /= "undef") + Count(v.message /= Absent)
  + Count(v.error /= Absent)

BodyObjects ==
  { v \in { JObj(su, st, r, m, e) :
              su \in SuccessVals, st \in StatusVals, r \in ResultVals,
              m \in MessageVals, e \in ErrorVals } :
      NumMembers(v) <= MaxMembers }

BodyValues == BodyObjects \cup {JNull, JStr("hello"), JStr("")}

Styles == {"compact", "spaced", "pretty"}

\* every text that is strict JSON for a value of the universe
JsonTexts == { Stringify(v, st) : v \in BodyValues, st \in Styles }

\* JSON.parse as a table over the universe; a text outside JsonTexts is a
\* SyntaxError
ParseTable ==
  [ t \in JsonTexts |->
      CHOOSE v \in BodyValues : \E st \in Styles : Stringify(v, st) = t ]

JsonParseThrows(t) == t \notin JsonTexts
JsonParse(t) == ParseTable[t]

\* wrappers a model reply puts around its JSON (a tilde code fence, prose)
Fenced(t) == "~~~json\n" \o t \o "\n~~~"
Prose(t) == "Here is the answer: " \o t

\* the values that also occur spaced, pretty-printed, fenced or in prose
WrappedValues ==
  { JStr("hello"),
    JObj(Absent, Absent, ResObj("hello"), Absent, Absent),
    JObj(Absent, Absent, NoResult, Absent, "rate limited") }

PlainTexts == {"", "not json at all"}

Bodies ==
  { Stringify(v, "compact") : v \in BodyValues }
  \cup { Stringify(v, "spaced") : v \in WrappedValues }
  \cup { Stringify(v, "pretty") : v \in WrappedValues }
  \cup { Fenced(Stringify(v, "compact")) : v \in WrappedValues }
  \cup { Prose(Stringify(v, "compact")) : v \in WrappedValues \ {JStr("hello")} }
  \cup PlainTexts

\* the bodies drawn when calls follow one another: one per kind of reply
FewBodies ==
  { "", "not json at all", "null", Quote("hello"),
    Stringify(JObj(Absent, Absent, ResObj("hello"), Absent, Absent), "spaced"),
    Stringify(JObj(Absent, Absent, NoResult, Absent, "rate limited"), "spaced"),
    Stringify(JObj(Absent, Absent, NoResult, "boom", Absent), "compact"),
    Fenced(Stringify(JObj(Absent, Absent, ResObj("hello"), Absent, Absent),
                     "compact")) }

(***************************************************************************)
(* parseLLMJson, the tolerant extractor (src/utils/jsonParser is not among *)
(* the sources; modelled from the specification, section 4.1).             *)
(***************************************************************************)
ParseFailureMessage == "Could not extract JSON from response"

ExtractionFailure(text) ==
  [JBase EXCEPT !.k = "obj", !.success = "false",
                !.error = ParseFailureMessage, !.raw_response = text]

\* step 1: strip a code fence; step 3: the first balanced {...} span
StripFence(text) ==
  IF \E t \in JsonTexts : Fenced(t) = text
  THEN CHOOSE t \in JsonTexts : Fenced(t) = text
  ELSE text

BalancedSpan(text) ==
  IF \E t \in JsonTexts : Prose(t) = text
  THEN CHOOSE t \in JsonTexts : Prose(t) = text
  ELSE text

\* steps 3 to 5 with the last JSON.parse left unguarded
ParseSpan_Throws(text, span) ==
  IF ~JsonParseThrows(span) THEN JsonParse(span)
  ELSE JThrow("Unexpected token in JSON")

\* steps 3 to 5: the span is parsed, or the extraction fails
ParseSpan(text, span) ==
  IF ~JsonParseThrows(span) THEN JsonParse(span) ELSE ExtractionFailure(text)

\* step 2: the stripped text is parsed strictly
ParseStripped(text, stripped) ==
  IF ~JsonParseThrows(stripped) THEN JsonParse(stripped)
  ELSE ParseSpan(text, BalancedSpan(stripped))

ParseLLMJson(text) == ParseStripped(text, StripFence(text))

\* the extractor's value for each body of the universe
ExtractorTable == [ b \in Bodies |-> ParseLLMJson(b) ]

(***************************************************************************)
(* useAgent.ts: records                                                    *)
(***************************************************************************)
LYZR_API_URL == "https://agent-prod.studio.lyzr.ai/v3/inference/chat"

\* ErrorDetails (timestamp, userAgent and url are left out); NoError is null
NoError ==
  [type |-> "none", message |-> Absent, raw_response |-> Absent,
   endpoint |-> Absent]
ErrorDetails(type, message, raw, endpoint) ==
  [type |-> type, message |-> message, raw_response |-> raw,
   endpoint |-> endpoint]

\* the `data' record both callers build from the HTTP response
\* (agent_id, user_id, session_id and timestamp are left out); NoData is null
NoData ==
  [set |-> FALSE, success |-> FALSE, response |-> JUndef, error |-> Absent,
   details |-> Absent, raw_response |-> Absent]
Data(success, response, error, details, raw) ==
  [set |-> TRUE, success |-> success, response |-> response, error |-> error,
   details |-> details, raw_response |-> raw]

\* AgentResponse; NoResponse stands for "nothing returned (yet)"
NoResponse ==
  [set |-> FALSE, success |-> FALSE, data |-> JUndef, message |-> Absent,
   raw_response |-> Absent, error |-> NoError]
AgentResponse(success, data, message, raw, error) ==
  [set |-> TRUE, success |-> success, data |-> data, message |-> message,
   raw_response |-> raw, error |-> error]

StatusMessage(status) == "API returned status " \o ToString(status)

\* res.ok
Ok(status) == status >= 200 /\ status <= 299

(***************************************************************************)
(* useAgent.ts: extractAgentMessage                                        *)
(***************************************************************************)
\* lines 95-103: the message taken from the re-parsed raw text
MessageFromParsed(rawResponse, parsed) ==
  IF parsed.k = "null" THEN rawResponse   \* parsed.result throws: line 106
  ELSE IF Truthy(parsed.result.message) THEN parsed.result.message
  ELSE IF Truthy(parsed.message) THEN parsed.message
  ELSE IF parsed.status = "success"
          /\ (parsed.result.k = "obj"
              \/ (parsed.result.k = "str" /\ parsed.result.s /= ""))
       THEN IF parsed.result.k = "str" THEN parsed.result.s
            ELSE StringifyResult(parsed.result)
  ELSE Stringify(parsed, "pretty")

\* lines 93-107: the raw text re-parsed with JSON.parse inside try/catch
MessageFromRaw(rawResponse) ==
  IF JsonParseThrows(rawResponse) THEN rawResponse
  ELSE MessageFromParsed(rawResponse, JsonParse(rawResponse))

\* lines 75-88 with the first two sources tried in the other order
MessageOf_MessageFirst(r, rawResponse) ==
  IF IsObject(r) /\ ~(r.success = "false" \/ Truthy(r.error))
  THEN IF Truthy(r.message) THEN r.message
       ELSE IF Truthy(r.result.message) THEN r.result.message
       ELSE IF r.result.k = "str" /\ r.result.s /= "" THEN r.result.s
       ELSE Stringify(r, "pretty")
  ELSE IF Truthy(rawResponse) THEN MessageFromRaw(rawResponse)
  ELSE "No response received"

\* lines 75-88 and 91-110 for a response r and the raw text to fall back on
MessageOf(r, rawResponse) ==
  IF IsObject(r) /\ ~(r.success = "false" \/ Truthy(r.error))
  THEN IF Truthy(r.result.message) THEN r.result.message
       ELSE IF Truthy(r.message) THEN r.message
       ELSE IF r.result.k = "str" /\ r.result.s /= "" THEN r.result.s
       ELSE Stringify(r, "pretty")
  ELSE IF Truthy(rawResponse) THEN MessageFromRaw(rawResponse)
  ELSE "No response received"

ExtractAgentMessage(data) ==
  MessageOf(
    data.response,
    OrElse(IF IsObject(data.response) THEN data.response.raw_response
           ELSE Absent,
           data.raw_response))

(***************************************************************************)
(* useAgent.ts: detectError                                                *)
(***************************************************************************)
DetectError(data, endpoint) ==
  IF IsObject(data.response) /\ data.response.success = "false"
     /\ Truthy(data.response.error)
  THEN ErrorDetails("parse_error", data.response.error,
                    OrElse(data.response.raw_response, data.raw_response),
                    endpoint)
  ELSE IF ~data.success /\ Truthy(data.error)
  THEN ErrorDetails("api_error", data.error,
                    OrElse(data.details, data.raw_response), endpoint)
  ELSE NoError

(***************************************************************************)
(* useAgent.ts lines 196-227 and 354-385: the response turned into `data'  *)
(***************************************************************************)
\* the test of lines 200 and 360 without its `|| parsed?.error'
ParsedFailed_SuccessFlagOnly(parsed) ==
  IsObject(parsed) /\ parsed.success = "false"

\* parsed?.success === false || parsed?.error
ParsedFailed(parsed) ==
  IsObject(parsed) /\ (parsed.success = "false" \/ Truthy(parsed.error))

\* parsed?.error and parsed?.message
ErrorOf(parsed) == IF IsObject(parsed) THEN parsed.error ELSE Absent
MessageMemberOf(parsed) == IF IsObject(parsed) THEN parsed.message ELSE Absent

\* the `data' record for a status, the body and the extractor's value
Transform(status, rawText, parsed) ==
  IF Ok(status)
  THEN IF ParsedFailed(parsed)
       THEN Data(FALSE, JUndef,
                 OrElse(ErrorOf(parsed), "Failed to parse agent response"),
                 Absent, rawText)
       ELSE Data(TRUE, parsed, Absent, Absent, rawText)
  ELSE Data(FALSE, JUndef,
            OrElse(ErrorOf(parsed),
                   OrElse(MessageMemberOf(parsed), StatusMessage(status))),
            rawText, rawText)

\* the transformation without the fallback to the payload's message member
TransformResponse_NoMessage(status, rawText) ==
  [Transform(status, rawText, ExtractorTable[rawText]) EXCEPT
     !.error = IF Ok(status) THEN @
               ELSE OrElse(ErrorOf(ExtractorTable[rawText]),
                           StatusMessage(status))]

TransformResponse(status, rawText) ==
  Transform(status, rawText, ExtractorTable[rawText])

(***************************************************************************)
(* utils/aiAgent.ts: callAIAgent, the wrapper the Home page calls          *)
(***************************************************************************)
\* AIAgentResponse
AIAgentResponse(success, response, error, details, raw) ==
  [success |-> success, response |-> response, error |-> error,
   details |-> details, raw_response |-> raw]

\* lines 142-149: the outer catch, for a thrown Error with message m
CallFailed(m) ==
  AIAgentResponse(FALSE, JUndef, "Failed to call AI agent", m, Absent)

\* JavaScript truthiness of a JSON value
TruthyValue(v) == v.k = "obj" \/ (v.k = "str" /\ v.s /= "")

\* lines 135-140 for the errorData of lines 128-133
ErrorReturn(status, rawText, errorData) ==
  IF errorData.k \in {"null", "undef"}   \* errorData.error throws
  THEN CallFailed("Cannot read properties of null (reading 'error')")
  ELSE AIAgentResponse(
         FALSE, JUndef,
         OrElse(ErrorOf(errorData),
                OrElse(MessageMemberOf(errorData), StatusMessage(status))),
         rawText, rawText)

\* line 132: { error: rawText || template }
ErrorDataFallback(status, rawText) ==
  [JBase EXCEPT !.k = "obj",
                !.error = OrElse(rawText, StatusMessage(status))]

\* lines 128-133: parseLLMJson(rawText) || JSON.parse(rawText), in try/catch
ErrorData(status, rawText, parsed) ==
  IF Throws(parsed) THEN ErrorDataFallback(status, rawText)
  ELSE IF TruthyValue(parsed) THEN parsed
  ELSE IF JsonParseThrows(rawText) THEN ErrorDataFallback(status, rawText)
  ELSE JsonParse(rawText)

\* lines 99-141 for a status, the body and the extractor's value
AIAgentReturn(status, rawText, parsed) ==
  IF Ok(status)
  THEN IF Throws(parsed) THEN CallFailed(parsed.s)
       ELSE IF ParsedFailed(parsed)
       THEN AIAgentResponse(
              FALSE, JUndef,
              OrElse(ErrorOf(parsed), "Failed to parse agent response"),
              Absent, rawText)
       ELSE AIAgentResponse(TRUE, parsed, Absent, Absent, rawText)
  ELSE ErrorReturn(status, rawText, ErrorData(status, rawText, parsed))

CallAIAgent(status, rawText) ==
  AIAgentReturn(status, rawText, ExtractorTable[rawText])

(***************************************************************************)
(* pages/Home.tsx: the text of the assistant message                       *)
(***************************************************************************)
\* lines 120-126: responseText is a string, or the `result' object itself
ResponseText(r) ==
  IF r.k = "str" THEN ResStr(r.s)
  ELSE IF Truthy(r.message) THEN ResStr(r.message)
  ELSE IF r.result.k = "obj" \/ (r.result.k = "str" /\ r.result.s /= "")
       THEN r.result
  ELSE ResStr(Stringify(r, "compact"))

\* parseResponseWithCitations (lines 164-193): the content it returns;
\* String(obj) of a plain object is '[object Object]'
ParseResponseWithCitations(text) ==
  IF text.k = "str" THEN text.s ELSE "[object Object]"

\* lines 119-149: the content of the message appended for a result
AssistantContent(result) ==
  IF result.success /\ TruthyValue(result.response)
  THEN ParseResponseWithCitations(ResponseText(result.response))
  ELSE "Error: " \o OrElse(result.error, "Failed to get response from agent")

\* Message (id and timestamp are left out); status and body record the
\* response an assistant message was made from
Message(type, content, status, body) ==
  [type |-> type, content |-> content, status |-> status, body |-> body]

\* the text typed into the input box, and input.trim()
Inputs == {"", "  ", "hi"}
Trim(text) == IF text = "  " THEN "" ELSE text
\* one of the four example queries
EXAMPLE_QUERIES == {"Summarize the product strategy for 2024"}

\* the page holds at most MaxMessages messages
MaxMessages == 4

\* a request of the page: awaiting fetch, or awaiting the body
Request(pc, status) == [pc |-> pc, status |-> status]

\* what the committed render shows and its handlers close over
View(loading, input) == [loading |-> loading, input |-> input]

HomeInit ==
  [loading |-> FALSE, input |-> "", messages |-> <<>>, pending |-> <<>>,
   view |-> View(FALSE, "")]

(***************************************************************************)
(* State                                                                   *)
(***************************************************************************)
VARIABLES
  inIframe,             \* isInIframe(): fixed for the life of the page
  envAgentId,           \* import.meta.env.VITE_AGENT_ID
  globalErrorCallback,  \* the module-level callback slot
  loading,              \* useAgent state
  error,                \* useAgent state
  lastResponse,         \* useAgent state
  call,                 \* the calls in progress or finished, by call slot
  registered,           \* history: the last argument of setGlobalErrorCallback
  clearedCallback,      \* history: the callback clearGlobalError has invoked
                        \* with null since the last registration
  home                  \* the Home page: its state, its render, its requests

vars ==
  <<inIframe, envAgentId, globalErrorCallback, loading, error, lastResponse,
    call, registered, clearedCallback, home>>

Calls == {1, 2}
\* the slot used when calls are made one after the other
Sequential == {1}

Statuses == {200, 404, 500}
\* the statuses drawn when calls follow one another
FewStatuses == {200, 500}
AgentIds == {Absent, "agent-1"}
HookAgentIds == {Absent, "agent-2"}
EnvAgentIds == {Absent, "agent-env"}
NoCallback == "null"
Callbacks == {"banner-1", "banner-2"}

\* a thrown value: an Error with a message, or a value that is no Error
NoException == [thrown |-> FALSE, isError |-> FALSE, message |-> Absent]
ErrorThrown(m) == [thrown |-> TRUE, isError |-> TRUE, message |-> m]
ValueThrown == [thrown |-> TRUE, isError |-> FALSE, message |-> Absent]

\* what fetch / res.text() reject with
TransportErrors == {ErrorThrown("fetch failed"), ErrorThrown("Failed to fetch")}

Observers == {"host", "global", "onError"}
\* which observer throws when it is invoked, if any: an observer that throws
\* ends the block it is called from, so one name per block says it all
ThrowChoices == Observers \cup {"none"}
\* what each observer throws when it throws
ObserverThrows(obs) ==
  IF obs = "host" THEN ErrorThrown("postMessage failed")
  ELSE IF obs = "global" THEN ValueThrown
  ELSE ErrorThrown("onError failed")

\* the options a call closes over
Options == [hasOnError : BOOLEAN, showErrorModal : BOOLEAN]
NoOptions == [hasOnError |-> FALSE, showErrorModal |-> TRUE]

IdleCall ==
  [pc |-> "idle", api |-> "hook", agentId |-> Absent, options |-> NoOptions,
   requests |-> 0, status |-> 0, body |-> Absent, transport |-> NoException,
   detected |-> NoError, trace |-> <<>>, result |-> NoResponse,
   escaped |-> NoException]

Init ==
  /\ inIframe \in BOOLEAN
  /\ envAgentId \in EnvAgentIds
  /\ globalErrorCallback = NoCallback
  /\ loading = FALSE
  /\ error = NoError
  /\ lastResponse = NoData
  /\ call = [c \in Calls |-> IdleCall]
  /\ registered = NoCallback
  /\ clearedCallback = NoCallback
  /\ home = HomeInit

(***************************************************************************)
(* The observers of a failure: sendErrorToParent, the global callback and  *)
(* options.onError (useAgent.ts lines 237-249, 284-293, 390-395, 423-428). *)
(* t names the one that throws when invoked.  The result is the list of    *)
(* invocations made and the exception that ended them, if any.             *)
(***************************************************************************)
Event(obs, err, cb, threw) ==
  [obs |-> obs, err |-> err, cb |-> cb, threw |-> threw]

\* sendErrorToParent (src/components/ErrorBoundary is not among the
\* sources): posts the record to the host frame, or throws
SendErrorToParent(err, throws) == Event("host", err, Absent, throws)

Notify(api, options, err, t) ==
  LET hostOk == ~inIframe \/ t /= "host"
      globalCalled ==
        /\ inIframe /\ hostOk
        /\ globalErrorCallback /= NoCallback
        /\ (api = "api" \/ options.showErrorModal)
      globalOk == ~globalCalled \/ t /= "global"
      onErrorCalled ==
        hostOk /\ globalOk /\ api = "hook" /\ options.hasOnError
  IN  [trace |->
         Opt(inIframe, SendErrorToParent(err, t = "host"))
         \o Opt(globalCalled,
                Event("global", err, globalErrorCallback, t = "global"))
         \o Opt(onErrorCalled, Event("onError", err, Absent, t = "onError")),
       exception |->
         IF ~hostOk THEN ObserverThrows("host")
         ELSE IF ~globalOk THEN ObserverThrows("global")
         ELSE IF onErrorCalled /\ t = "onError" THEN ObserverThrows("onError")
         ELSE NoException]

\* the catch block's ErrorDetails with the thrown message dropped
CatchError_FixedMessage(api, e) ==
  ErrorDetails("network_error", "Network request failed", Absent,
               IF api = "hook" THEN LYZR_API_URL ELSE "/api/agent")

\* the ErrorDetails built in the catch block (lines 272-280, 414-421)
CatchError(api, e) ==
  ErrorDetails("network_error",
               IF e.isError THEN e.message ELSE "Network request failed",
               Absent,
               IF api = "hook" THEN LYZR_API_URL ELSE "/api/agent")

\* the end of the catch block (lines 282-300, 423-435) for its ErrorDetails
\* and what its observers did
CatchOutcome(err, n) ==
  [error |-> err,
   trace |-> n.trace,
   escaped |-> n.exception,
   result |->
     IF n.exception.thrown THEN NoResponse
     ELSE AgentResponse(FALSE, JNull, "Failed to connect to agent",
                        Absent, err)]

\* the catch block (lines 271-300, 413-436): its ErrorDetails, the
\* invocations it makes, and the result returned or the exception escaping
CatchBlock(api, options, e, t) ==
  CatchOutcome(CatchError(api, e),
               Notify(api, options, CatchError(api, e), t))

\* lines 262-269, 406-411: the success result
Succeeded(data) ==
  [data |-> data, detected |-> NoError, error |-> NoError,
   trace |-> <<>>, escaped |-> NoException,
   result |-> AgentResponse(TRUE, data.response, ExtractAgentMessage(data),
                            data.raw_response, NoError)]

\* lines 251-259, 397-403: the failure result
Failed(data, det, n) ==
  [data |-> data, detected |-> det, error |-> det,
   trace |-> n.trace, escaped |-> NoException,
   result |-> AgentResponse(FALSE, JNull, ExtractAgentMessage(data),
                            data.raw_response, det)]

\* an observer threw in the try block and the catch block c ran
Caught(data, det, n, c) ==
  [data |-> data, detected |-> det, error |-> c.error,
   trace |-> n.trace \o c.trace, escaped |-> c.escaped,
   result |-> c.result]

\* lines 234-260, 389-404: after the observers of the detected error ran
AfterNotify(api, options, data, det, n, tCatch) ==
  IF ~n.exception.thrown THEN Failed(data, det, n)
  ELSE Caught(data, det, n, CatchBlock(api, options, n.exception, tCatch))

\* lines 232-269, 387-411
AfterDetect(api, options, data, det, tTry, tCatch) ==
  IF det = NoError THEN Succeeded(data)
  ELSE AfterNotify(api, options, data, det,
                   Notify(api, options, det, tTry), tCatch)

\* lines 229-269, 387-411
AfterTransform(api, options, data, tTry, tCatch) ==
  AfterDetect(api, options, data, DetectError(data, LYZR_API_URL),
              tTry, tCatch)

\* the code after `await res.text()' (lines 194-269, 352-411), followed by
\* the catch block when one of the observers throws
AfterBody(api, options, status, rawText, tTry, tCatch) ==
  IF Throws(ExtractorTable[rawText])   \* line 194 is inside the try block
  THEN Caught(NoData, NoError, [trace |-> <<>>],
              CatchBlock(api, options,
                         ErrorThrown(ExtractorTable[rawText].s), tCatch))
  ELSE AfterTransform(api, options, TransformResponse(status, rawText),
                      tTry, tCatch)

(***************************************************************************)
(* Actions                                                                 *)
(***************************************************************************)
Free(c) == call[c].pc \in {"idle", "returned", "thrown"}

\* setGlobalErrorCallback keeping the callback already registered
SetGlobalErrorCallback_FirstWins(cb) ==
  /\ globalErrorCallback' =
       IF globalErrorCallback = NoCallback THEN cb ELSE globalErrorCallback
  /\ registered' = cb
  /\ clearedCallback' = NoCallback
  /\ UNCHANGED <<inIframe, envAgentId, loading, error, lastResponse, call,
                 home>>

\* setGlobalErrorCallback(callback)
SetGlobalErrorCallback(cb) ==
  /\ globalErrorCallback' = cb
  /\ registered' = cb
  /\ clearedCallback' = NoCallback
  /\ UNCHANGED <<inIframe, envAgentId, loading, error, lastResponse, call,
                 home>>

\* clearGlobalError()
ClearGlobalError ==
  /\ clearedCallback' = IF globalErrorCallback /= NoCallback
                        THEN globalErrorCallback
                        ELSE clearedCallback
  /\ UNCHANGED <<inIframe, envAgentId, globalErrorCallback, loading, error,
                 lastResponse, call, registered, home>>

\* line 162 testing for the empty string only
MissingAgentId_EmptyOnly(finalAgentId) == finalAgentId = ""

\* line 162: !finalAgentId
MissingAgentId(finalAgentId) == ~Truthy(finalAgentId)

\* callAgent(callOptions), lines 158-189: up to the fetch being issued, or
\* the early return when no agent id is available
CallAgent(c, agentId, hookAgentId, options) ==
  LET finalAgentId == OrElse(agentId, OrElse(hookAgentId, envAgentId))
      err == ErrorDetails("api_error", "No agent_id provided", Absent,
                          LYZR_API_URL)
  IN  /\ Free(c)
      /\ IF MissingAgentId(finalAgentId)
         THEN /\ error' = err
              /\ call' = [call EXCEPT ![c] =
                   [IdleCall EXCEPT !.pc = "returned", !.options = options,
                      !.agentId = finalAgentId,
                      !.result = AgentResponse(FALSE, JNull,
                                   "No agent_id provided", Absent, err)]]
              /\ UNCHANGED loading
         ELSE /\ loading' = TRUE
              /\ error' = NoError
              /\ call' = [call EXCEPT ![c] =
                   [IdleCall EXCEPT !.pc = "fetching", !.options = options,
                      !.agentId = finalAgentId, !.requests = 1]]
      /\ UNCHANGED <<inIframe, envAgentId, globalErrorCallback, lastResponse,
                     registered, clearedCallback, home>>

\* callAgentAPI(message, agentId, options), lines 331-347
CallAgentAPI(c, agentId) ==
  /\ Free(c)
  /\ Truthy(agentId)
  /\ call' = [call EXCEPT ![c] =
       [IdleCall EXCEPT !.pc = "fetching", !.api = "api", !.agentId = agentId,
                        !.requests = 1]]
  /\ UNCHANGED <<inIframe, envAgentId, globalErrorCallback, loading, error,
                 lastResponse, registered, clearedCallback, home>>

\* `await fetch(...)' resolves with a response of the given status and the
\* body is requested (lines 179-191, 337-349)
FetchResolves(c, status) ==
  /\ call[c].pc = "fetching"
  /\ call' = [call EXCEPT ![c].pc = "reading", ![c].status = status]
  /\ UNCHANGED <<inIframe, envAgentId, globalErrorCallback, loading, error,
                 lastResponse, registered, clearedCallback, home>>

\* the end of a call with lastResponse reset when no response was built
Finish_ResetsLastResponse(c, out, body, e) ==
  /\ call' = [call EXCEPT ![c].pc =
                            IF out.escaped.thrown THEN "thrown" ELSE "returned",
                          ![c].body = body,
                          ![c].transport = e,
                          ![c].detected = out.detected,
                          ![c].trace = out.trace,
                          ![c].result = out.result,
                          ![c].escaped = out.escaped]
  /\ IF call[c].api = "hook"
     THEN /\ loading' = FALSE
          /\ error' = IF out.error = NoError THEN error ELSE out.error
          /\ lastResponse' = out.data
     ELSE UNCHANGED <<loading, error, lastResponse>>
  /\ UNCHANGED <<inIframe, envAgentId, globalErrorCallback, registered,
                 clearedCallback, home>>

\* the end of a call: its result or escaping exception, and for the hook
\* the state it sets (setError runs only on a failure); `finally' sets
\* loading to false either way
Finish(c, out, body, e) ==
  /\ call' = [call EXCEPT ![c].pc =
                            IF out.escaped.thrown THEN "thrown" ELSE "returned",
                          ![c].body = body,
                          ![c].transport = e,
                          ![c].detected = out.detected,
                          ![c].trace = out.trace,
                          ![c].result = out.result,
                          ![c].escaped = out.escaped]
  /\ IF call[c].api = "hook"
     THEN /\ loading' = FALSE
          /\ error' = IF out.error = NoError THEN error ELSE out.error
          /\ lastResponse' = IF out.data.set THEN out.data ELSE lastResponse
     ELSE UNCHANGED <<loading, error, lastResponse>>
  /\ UNCHANGED <<inIframe, envAgentId, globalErrorCallback, registered,
                 clearedCallback, home>>

\* the rest of the function working on a status kept in one place for all
\* calls (the status the first slot holds)
BodyArrives_SharedStatus(c, rawText, tTry, tCatch) ==
  /\ call[c].pc = "reading"
  /\ Finish(c,
            AfterBody(call[c].api, call[c].options, call[1].status, rawText,
                      tTry, tCatch),
            rawText, NoException)

\* `await res.text()' resolves with the body: the rest of the function runs
BodyArrives(c, rawText, tTry, tCatch) ==
  /\ call[c].pc = "reading"
  /\ Finish(c,
            AfterBody(call[c].api, call[c].options, call[c].status, rawText,
                      tTry, tCatch),
            rawText, NoException)

\* `await fetch(...)' or `await res.text()' rejects: the catch block runs
TransportFails(c, e, tCatch) ==
  /\ call[c].pc \in {"fetching", "reading"}
  /\ Finish(c,
            [data |-> NoData, detected |-> NoError] @@
              CatchBlock(call[c].api, call[c].options, e, tCatch),
            Absent, e)

(***************************************************************************)
(* pages/Home.tsx: the page's handlers.  React commits the render of the  *)
(* state set in an event handler before the next event is dispatched;      *)
(* the state set after an await is rendered later, by Render.              *)
(***************************************************************************)
Rendered(h) == [h EXCEPT !.view = View(h.loading, h.input)]

RemoveAt(seq, i) == SubSeq(seq, 1, i - 1) \o SubSeq(seq, i + 1, Len(seq))

\* onChange of the input box (line 458), which is disabled while loading
ChangeInput(text) ==
  /\ ~home.view.loading
  /\ home' = Rendered([home EXCEPT !.input = text])
  /\ UNCHANGED <<inIframe, envAgentId, globalErrorCallback, loading, error,
                 lastResponse, call, registered, clearedCallback>>

\* onClick of an example query (line 348), shown while there is no message
PickExample(query) ==
  /\ home.messages = <<>>
  /\ home' = Rendered([home EXCEPT !.input = query])
  /\ UNCHANGED <<inIframe, envAgentId, globalErrorCallback, loading, error,
                 lastResponse, call, registered, clearedCallback>>

\* handleSendMessage without the early return of line 103
HandleSendMessage_Unguarded ==
  /\ Len(home.messages) + Len(home.pending) + 2 <= MaxMessages
  /\ home' = Rendered([home EXCEPT
       !.messages = Append(@, Message("user", home.view.input, 0, Absent)),
       !.input = "",
       !.loading = TRUE,
       !.pending = Append(@, Request("fetching", 0))])
  /\ UNCHANGED <<inIframe, envAgentId, globalErrorCallback, loading, error,
                 lastResponse, call, registered, clearedCallback>>

\* handleSendMessage (lines 102-117), from Enter or the send button, up to
\* the fetch callAIAgent issues; input and loading are those of the render
\* the handler belongs to
HandleSendMessage ==
  /\ Len(home.messages) + Len(home.pending) + 2 <= MaxMessages
  /\ IF Trim(home.view.input) = "" \/ home.view.loading
     THEN UNCHANGED home
     ELSE home' = Rendered([home EXCEPT
            !.messages = Append(@, Message("user", home.view.input, 0, Absent)),
            !.input = "",
            !.loading = TRUE,
            !.pending = Append(@, Request("fetching", 0))])
  /\ UNCHANGED <<inIframe, envAgentId, globalErrorCallback, loading, error,
                 lastResponse, call, registered, clearedCallback>>

\* aiAgent.ts lines 85-99: fetch resolves and the body is requested
HomeFetchResolves(i, status) ==
  /\ i \in 1..Len(home.pending)
  /\ home.pending[i].pc = "fetching"
  /\ home' = [home EXCEPT !.pending[i] = Request("reading", status)]
  /\ UNCHANGED <<inIframe, envAgentId, globalErrorCallback, loading, error,
                 lastResponse, call, registered, clearedCallback>>

\* lines 119-160: the rest of handleSendMessage once callAIAgent returned
HomeCompletes(i, result, status, body) ==
  /\ home' = [home EXCEPT
       !.messages = Append(@, Message("assistant", AssistantContent(result),
                                      status, body)),
       !.loading = FALSE,
       !.pending = RemoveAt(@, i)]
  /\ UNCHANGED <<inIframe, envAgentId, globalErrorCallback, loading, error,
                 lastResponse, call, registered, clearedCallback>>

\* `await response.text()' resolves with the body
HomeBodyArrives(i, rawText) ==
  /\ i \in 1..Len(home.pending)
  /\ home.pending[i].pc = "reading"
  /\ HomeCompletes(i, CallAIAgent(home.pending[i].status, rawText),
                   home.pending[i].status, rawText)

\* fetch or response.text() rejects: callAIAgent's catch returns a failure
HomeTransportFails(i, e) ==
  /\ i \in 1..Len(home.pending)
  /\ HomeCompletes(i, CallFailed(e.message), 0, Absent)

\* React renders the state set after an await
Render ==
  /\ home' = Rendered(home)
  /\ UNCHANGED <<inIframe, envAgentId, globalErrorCallback, loading, error,
                 lastResponse, call, registered, clearedCallback>>

\* the requests a page makes at once
HomeRequests == 1..2

\* the Home page on its own
NextHome ==
  \/ \E text \in Inputs : ChangeInput(text)
  \/ \E query \in EXAMPLE_QUERIES : PickExample(query)
  \/ HandleSendMessage
  \/ \E i \in HomeRequests, s \in FewStatuses : HomeFetchResolves(i, s)
  \/ \E i \in HomeRequests, b \in FewBodies : HomeBodyArrives(i, b)
  \/ \E i \in HomeRequests, e \in TransportErrors : HomeTransportFails(i, e)
  \/ Render

SpecHome == Init /\ [][NextHome]_vars

\* calls made one after the other, any number of them
Next ==
  \/ \E cb \in Callbacks : SetGlobalErrorCallback(cb)
  \/ \E c \in Sequential, a \in AgentIds, h \in HookAgentIds, o \in Options :
       CallAgent(c, a, h, o)
  \/ \E c \in Sequential : CallAgentAPI(c, "agent-1")
  \/ \E c \in Sequential, s \in FewStatuses : FetchResolves(c, s)
  \/ \E c \in Sequential, b \in FewBodies, t1, t2 \in ThrowChoices :
       BodyArrives(c, b, t1, t2)
  \/ \E c \in Sequential, e \in TransportErrors, t \in ThrowChoices :
       TransportFails(c, e, t)

Spec == Init /\ [][Next]_vars

\* one call, over every body of the universe; the hook was given no
\* identifier of its own
NextOnce ==
  \/ \E cb \in Callbacks : SetGlobalErrorCallback(cb)
  \/ \E c \in Sequential, a \in AgentIds, o \in Options :
       call[c].pc = "idle" /\ CallAgent(c, a, Absent, o)
  \/ \E c \in Sequential : call[c].pc = "idle" /\ CallAgentAPI(c, "agent-1")
  \/ \E c \in Sequential, s \in Statuses : FetchResolves(c, s)
  \/ \E c \in Sequential, b \in Bodies, t1, t2 \in ThrowChoices :
       BodyArrives(c, b, t1, t2)
  \/ \E c \in Sequential, e \in TransportErrors, t \in ThrowChoices :
       TransportFails(c, e, t)

SpecOnce == Init /\ [][NextOnce]_vars

\* the bodies drawn when two calls overlap: a reply and a reported error
TwoBodies ==
  { Stringify(JObj(Absent, Absent, ResObj("hello"), Absent, Absent), "spaced"),
    Stringify(JObj(Absent, Absent, NoResult, Absent, "rate limited"), "spaced") }

\* the options drawn when two calls overlap
TwoOptions == {NoOptions, [hasOnError |-> TRUE, showErrorModal |-> TRUE]}

\* two calls of one hook instance that may overlap, each slot used once,
\* while callbacks are registered and cleared; an observer may throw in the
\* try block
NextTwo ==
  \/ \E cb \in Callbacks : SetGlobalErrorCallback(cb)
  \/ ClearGlobalError
  \/ \E c \in Calls, a \in AgentIds, o \in TwoOptions :
       call[c].pc = "idle" /\ CallAgent(c, a, Absent, o)
  \/ \E c \in Calls, s \in FewStatuses : FetchResolves(c, s)
  \/ \E c \in Calls, b \in TwoBodies, t \in ThrowChoices :
       BodyArrives(c, b, t, "none")
  \/ \E c \in Calls : TransportFails(c, ErrorThrown("fetch failed"), "none")

SpecTwo == Init /\ [][NextTwo]_vars

(***************************************************************************)
(* Properties                                                              *)
(***************************************************************************)
Returned(c) == call[c].pc = "returned"
Ended(c) == call[c].pc \in {"returned", "thrown"}
\* the call received the body of an HTTP response
GotBody(c) == call[c].body /= Absent
\* the value the extractor gave for the body the call received
Parsed(c) == ExtractorTable[call[c].body]

\* C1: callAgent and callAgentAPI always end by returning an AgentResult;
\* no exception escapes to the caller, whatever the HTTP call, the
\* extractor, the host forwarding, the global callback and onError do.
C1_NeverThrowsToCaller ==
  \A c \in Calls : call[c].pc /= "thrown"

\* C2: with a 2xx status, when the extractor reports failure or the
\* payload carries a failure marker (success: false or a non-empty error),
\* the result returned is a failure of kind parse_error.
C2_MarkedPayloadIsParseError ==
  \A c \in Calls :
    (Returned(c) /\ GotBody(c) /\ Ok(call[c].status) /\ ParsedFailed(Parsed(c)))
      => /\ ~call[c].result.success
         /\ call[c].result.error.type = "parse_error"

\* the message the claim C3 names: the payload's error member when it is
\* there (and not empty), else the templated status message
C3_ClaimedMessage(c) ==
  IF IsObject(Parsed(c)) /\ Truthy(Parsed(c).error)
  THEN Parsed(c).error
  ELSE StatusMessage(call[c].status)

C3_ChainMessage(c) ==
  LET p == Parsed(c)
  IN  IF IsObject(p) /\ Truthy(p.error) THEN p.error
      ELSE IF IsObject(p) /\ Truthy(p.message) THEN p.message
      ELSE StatusMessage(call[c].status)

NoObserverThrew(c) ==
  \A i \in 1..Len(call[c].trace) : ~call[c].trace[i].threw

C4_RawResponseVerbatim ==
  \A c \in Calls :
    (Returned(c) /\ GotBody(c))
      => /\ call[c].result.raw_response = call[c].body
         /\ (~call[c].result.success
               => call[c].result.error.raw_response = call[c].body)

\* the message the claim C5 names for a parsed payload p: the first source
\* that is present, in its order (a), (b), (c), (e)
C5_ClaimedMessage(p) ==
  IF p.result.message /= Absent THEN p.result.message
  ELSE IF p.message /= Absent THEN p.message
  ELSE IF p.result.k = "str" THEN p.result.s
  ELSE Stringify(p, "pretty")

C5_AmendedMessage(p, raw) ==
  IF IsObject(p)
  THEN IF Truthy(p.result.message) THEN p.result.message
       ELSE IF Truthy(p.message) THEN p.message
       ELSE IF p.result.k = "str" /\ p.result.s /= "" THEN p.result.s
       ELSE Stringify(p, "pretty")
  ELSE IF p.k = "str" /\ ~JsonParseThrows(raw) THEN Stringify(p, "pretty")
  ELSE raw

C6_PlainStringUnchanged ==
  \A c \in Calls :
    (Returned(c) /\ call[c].result.success /\ call[c].result.data.k = "str")
      => call[c].result.message = call[c].result.data.s

\* C7: when the HTTP call throws with message M, the result is a failure
\* of kind network_error carrying M, and its data is null.
C7_TransportFailureIsNetworkError ==
  \A c \in Calls :
    (Returned(c) /\ call[c].transport.thrown)
      => /\ ~call[c].result.success
         /\ call[c].result.error.type = "network_error"
         /\ call[c].result.error.message = call[c].transport.message
         /\ call[c].result.data = JNull

\* C7 witness: a call whose fetch threw 'fetch failed' has returned
C7_Witness ==
  \E c \in Calls :
    /\ Returned(c)
    /\ call[c].transport = ErrorThrown("fetch failed")
    /\ call[c].result.error.message = "fetch failed"

\* C8: a result of kind network_error is produced only when the HTTP
\* transport failed, never for a failure after the body was received.
C8_NetworkErrorOnlyFromTransport ==
  \A c \in Calls :
    (Returned(c) /\ call[c].result.error.type = "network_error")
      => call[c].transport.thrown

\* the host frame was sent the record err during the call
Forwarded(c, err) ==
  \E i \in 1..Len(call[c].trace) :
    /\ call[c].trace[i].obs = "host"
    /\ call[c].trace[i].err = err
    /\ ~call[c].trace[i].threw

\* C9: every non-success result callAgent returns while embedded in a host
\* frame has had its ErrorDetails forwarded to the host before the return,
\* the missing-agent-id failure included.
C9_FailuresForwardedWhenEmbedded ==
  \A c \in Calls :
    (Returned(c) /\ call[c].api = "hook" /\ inIframe
       /\ ~call[c].result.success)
      => Forwarded(c, call[c].result.error)

OnlyHostThrew(c) ==
  \A i \in 1..Len(call[c].trace) :
    call[c].trace[i].threw => call[c].trace[i].obs = "host"

\* the error a call comes to when nothing is forwarded
Unforwarded(c) ==
  IF call[c].transport.thrown
  THEN CatchError(call[c].api, call[c].transport)
  ELSE call[c].detected

\* C10: forwarding to the host never changes the outcome: whether the
\* forwarding succeeds or throws, the call returns the result (success
\* flag, error kind and message) it returns when not embedded.
C10_ForwardingKeepsOutcome ==
  \A c \in Calls :
    (Ended(c) /\ call[c].requests = 1 /\ OnlyHostThrew(c))
      => /\ Returned(c)
         /\ call[c].result.success = (Unforwarded(c) = NoError)
         /\ call[c].result.error.type = Unforwarded(c).type
         /\ call[c].result.error.message = Unforwarded(c).message

\* C11: when no agent identifier is available (none in the call options,
\* none in the hook options, none in the environment), callAgent returns a
\* failure result with message 'No agent_id provided', without throwing
\* and without issuing any HTTP request.
C11_MissingAgentIdFailsWithoutRequest ==
  \A c \in Calls :
    (call[c].api = "hook" /\ call[c].pc /= "idle" /\ ~Truthy(call[c].agentId))
      => /\ Returned(c)
         /\ ~call[c].result.success
         /\ call[c].result.message = "No agent_id provided"
         /\ call[c].requests = 0

\* C11 witness: a call made with no identifier anywhere has returned its
\* failure
C11_Witness ==
  \E c \in Calls :
    /\ Returned(c) /\ call[c].api = "hook" /\ call[c].agentId = Absent
    /\ envAgentId = Absent
    /\ call[c].result.message = "No agent_id provided"
    /\ call[c].result.error.type = "api_error"

\* C12: every call issues at most one HTTP request and ends by returning
\* exactly one result, which is a success or a failure of kind api_error,
\* parse_error or network_error (never 'unknown').
C12_OneRequestOneResult ==
  \A c \in Calls :
    /\ call[c].requests <= 1
    /\ Ended(c)
         => /\ Returned(c)
            /\ call[c].result.set
            /\ \/ call[c].result.success /\ call[c].result.error = NoError
               \/ /\ ~call[c].result.success
                  /\ call[c].result.error.type
                       \in {"api_error", "parse_error", "network_error"}

\* C13: the global error callback is a single slot, last registration
\* wins: whenever a call broadcasts an error to the global callback, and
\* whenever clearGlobalError invokes it, the callback invoked is the one
\* registered last, also when it was registered while the call was in flight.
C13_LastRegistrationWins ==
  [][ /\ \A c \in Calls :
           call'[c].trace /= call[c].trace
             => \A i \in 1..Len(call'[c].trace) :
                  call'[c].trace[i].obs = "global"
                    => call'[c].trace[i].cb = registered'
      /\ clearedCallback' \in {NoCallback, registered'} ]_vars

\* C13 witness: one callback received a call's error, another one was
\* registered after it and is the one clearGlobalError invoked
C13_Witness ==
  /\ clearedCallback = "banner-2"
  /\ \E c \in Calls : \E i \in 1..Len(call[c].trace) :
       call[c].trace[i].obs = "global" /\ call[c].trace[i].cb = "banner-1"

Threw(ev) == ev.threw

\* what the first observer that threw during the call has thrown
FirstThrow(c) ==
  IF SelectSeq(call[c].trace, Threw) = <<>> THEN NoException
  ELSE ObserverThrows(SelectSeq(call[c].trace, Threw)[1].obs)

\* the result of a call from its own inputs (identifier, options), its own
\* HTTP outcome and what its own observers did
C14_ResultAlone(c) ==
  IF ~Truthy(call[c].agentId)
  THEN AgentResponse(FALSE, JNull, "No agent_id provided", Absent,
                     ErrorDetails("api_error", "No agent_id provided", Absent,
                                  LYZR_API_URL))
  ELSE IF call[c].transport.thrown
  THEN AgentResponse(FALSE, JNull, "Failed to connect to agent", Absent,
                     CatchError("hook", call[c].transport))
  ELSE IF FirstThrow(c).thrown
  THEN AgentResponse(FALSE, JNull, "Failed to connect to agent", Absent,
                     CatchError("hook", FirstThrow(c)))
  ELSE AfterBody("hook", call[c].options, call[c].status, call[c].body,
                 "none", "none").result

\* C14: concurrent calls are independent: under every interleaving of two
\* callAgent calls, each returned result is the one determined by that
\* call's own inputs and its own HTTP outcome, as if it had run alone.
C14_ConcurrentCallsIndependent ==
  \A c \in Calls : Returned(c) => call[c].result = C14_ResultAlone(c)

\* C14 witness: two calls overlapped and returned different results, the
\* one started second having finished while the first was still in flight
C14_Witness ==
  /\ Returned(1) /\ Returned(2)
  /\ call[1].result.success /\ ~call[2].result.success
  /\ call[2].status = 500 /\ call[1].status = 200
  /\ lastResponse.success
  /\ error = call[2].result.error

\* C15: each failed call creates exactly one ErrorDetails record and no
\* observer (host frame, global callback, onError) is told of a failure
\* more than once; a successful call creates none and tells no one.
C15_OneRecordReportedOnce ==
  \A c \in Calls :
    Ended(c)
      => /\ (Returned(c) /\ call[c].result.success) => call[c].trace = <<>>
         /\ \A i, j \in 1..Len(call[c].trace) :
              /\ call[c].trace[i].err = call[c].trace[j].err
              /\ (i /= j => call[c].trace[i].obs /= call[c].trace[j].obs)

SendTakesEffect ==
  \/ Len(home'.pending) > Len(home.pending)
  \/ /\ Len(home'.messages) > Len(home.messages)
     /\ home'.messages[Len(home'.messages)].type = "user"

\* C17: the Home page never has more than one agent request in flight:
\* handleSendMessage appends no message and issues no request when a
\* request is already loading or when the input is blank.
C17_SingleRequestInFlight ==
  [][ /\ Len(home'.pending) <= 1
      /\ SendTakesEffect
           => /\ home.pending = <<>> /\ ~home.loading
              /\ Trim(home.input) /= "" ]_vars

\* C17 witness: a second question was sent after the first was answered
\* and is in flight, with the input box blank again
C17_Witness ==
  /\ Len(home.pending) = 1 /\ home.loading /\ home.input = ""
  /\ Len(home.messages) = 3
  /\ home.messages[3].type = "user"

\* C19: every result returned is well-formed: success is false exactly when
\* an ErrorDetails is attached, a failure has data null, and success is
\* true only if the status was 2xx and the parsed payload had neither
\* success: false nor a non-empty error member.
C19_ResultWellFormed ==
  \A c \in Calls :
    Returned(c)
      => /\ call[c].result.success = (call[c].result.error = NoError)
         /\ (~call[c].result.success => call[c].result.data = JNull)
         /\ call[c].result.success
              => /\ GotBody(c) /\ Ok(call[c].status)
                 /\ ~(/\ IsObject(Parsed(c))
                      /\ \/ Parsed(c).success = "false"
                         \/ Truthy(Parsed(c).error))

\* C19 witness: a 200 reply with an object payload returned as a success
\* that carries the payload and no ErrorDetails
C19_Witness ==
  \E c \in Calls :
    /\ Returned(c) /\ call[c].result.success /\ call[c].status = 200
    /\ call[c].result.data
         = JObj(Absent, "success", ResStr("done"), Absent, Absent)
    /\ call[c].result.error = NoError

\* C20: for every successful agent response, the text the Home page shows
\* as the assistant message is the text extractAgentMessage returns for
\* that response (result.message for a payload {result: {message: ...}}).
C20_HomeShowsExtractedMessage ==
  \A i \in 1..Len(home.messages) :
    (/\ home.messages[i].type = "assistant"
     /\ home.messages[i].body /= Absent
     /\ Ok(home.messages[i].status)
     /\ ~ParsedFailed(ExtractorTable[home.messages[i].body]))
      => home.messages[i].content
           = ExtractAgentMessage(
               TransformResponse(home.messages[i].status,
                                 home.messages[i].body))

\* one of the hook's requests is in flight
InFlight(c) == call[c].api = "hook" /\ call[c].pc \in {"fetching", "reading"}

\* C18: loading is true in every state in which at least one callAgent
\* request of the hook is still in flight, and false once all of them have
\* completed, also when two calls overlap and one completes first.
C18_LoadingWhileInFlight ==
  loading = (\E c \in Calls : InFlight(c))

\* the place of an observer in the order host frame, global callback,
\* onError
Rank(obs) == IF obs = "host" THEN 1 ELSE IF obs = "global" THEN 2 ELSE 3

\* C21: on a failed useAgent call the observers are notified in the fixed
\* order host frame, global error callback, onError handler, before the
\* result is returned; onError is invoked whether or not the app is
\* embedded, the global callback only when the app is embedded and
\* showErrorModal is not false.
C21_ObserversInFixedOrder ==
  \A c \in Calls :
    (Returned(c) /\ call[c].api = "hook" /\ ~call[c].result.success)
      => /\ \A i, j \in 1..Len(call[c].trace) :
              i < j => Rank(call[c].trace[i].obs) < Rank(call[c].trace[j].obs)
         /\ call[c].options.hasOnError
              => \E i \in 1..Len(call[c].trace) :
                   call[c].trace[i].obs = "onError"
         /\ \A i \in 1..Len(call[c].trace) :
              call[c].trace[i].obs = "global"
                => inIframe /\ call[c].options.showErrorModal

\* this step is callAgent returning early for want of an identifier
EarlyReturn(c) ==
  /\ Free(c)
  /\ call'[c].api = "hook" /\ call'[c].pc = "returned"
  /\ call'[c].requests = 0
  /\ call'[c] /= call[c]

\* this step is a callAgent request failing in fetch or res.text()
TransportFailed(c) ==
  /\ InFlight(c)
  /\ call'[c].transport.thrown

\* this step is a callAgent request receiving its body
BodyReceived(c) ==
  /\ InFlight(c)
  /\ call'[c].body /= Absent

\* C22: a useAgent call that fails before any HTTP response is received
\* (transport exception or missing agent id) leaves lastResponse at the
\* value the previous call stored, the missing-id path also leaves loading
\* as it was, and lastResponse changes only when a body was received.
C22_LastResponseKeptWithoutBody ==
  [][ /\ \A c \in Calls :
           TransportFailed(c) => lastResponse' = lastResponse
      /\ \A c \in Calls :
           EarlyReturn(c) => lastResponse' = lastResponse /\ loading' = loading
      /\ lastResponse' /= lastResponse
           => \E c \in Calls :
                /\ BodyReceived(c)
                /\ lastResponse'.raw_response = call'[c].body ]_vars

\* C22 witness: a call failed in transport after an earlier call had stored
\* a response, and that response is still the last one
C22_Witness ==
  \E c \in Calls :
    /\ Returned(c) /\ call[c].api = "hook"
    /\ call[c].transport.thrown /\ call[c].body = Absent
    /\ lastResponse.set /\ lastResponse.success
    /\ ~loading

TypeOK ==
  /\ inIframe \in BOOLEAN
  /\ loading \in BOOLEAN
  /\ \A c \in Calls : call[c].pc \in {"idle", "fetching", "reading", "returned", "thrown"}
  /\ registered \in Callbacks \cup {NoCallback}
  /\ clearedCallback \in Callbacks \cup {NoCallback}
  /\ home.loading \in BOOLEAN
  /\ Len(home.messages) <= MaxMessages

====
